---- MODULE Spec2Model ----
(***************************************************************************)
(* scripts/mcps.py: the command-line updater of the "mcpRepos" list of a   *)
(* JSON file.  The model keeps the file on disk, and for every invocation  *)
(* of the program its position, its arguments, its in-memory document, its *)
(* return value, exit status and output streams.                           *)
(*                                                                         *)
(* A JSON value (as json.load builds it) is a record [t, v]: t is the      *)
(* Python type ("null", "int", "str", "list", "dict") and v the payload: a *)
(* sequence of characters for a str, a sequence of values for a list, a    *)
(* function from keys to values for a dict.                                *)
(***************************************************************************)
EXTENDS Integers, Sequences, FiniteSets, TLC

VARIABLES file, pc, argv, data, ret, status, out, err, pre, calls, lastDesc, writer

vars == <<file, pc, argv, data, ret, status, out, err, pre, calls, lastDesc, writer>>

(***************************************************************************)
(* Bounds of the model.                                                    *)
(***************************************************************************)
\* Invocations of the program in one behaviour of Spec.
MaxCalls == 2
\* Length of the entry list of the file the first invocation finds.
MaxInitLen == 2
\* Positional arguments on a command line.
MaxArgs == 4
\* Length of a URL in SpecName.
MaxUrlLen == 4

\* The invocations that may run at the same time.
Procs == {1, 2}

(***************************************************************************)
(* JSON values.                                                            *)
(***************************************************************************)
JNull == [t |-> "null", v |-> <<>>]

JInt(n) == [t |-> "int", v |-> n]

JStr(s) == [t |-> "str", v |-> s]

JList(s) == [t |-> "list", v |-> s]

JDict(f) == [t |-> "dict", v |-> f]

EmptyDict == [k \in {} |-> JNull]

\* dict[key] = val: the key is added when the dict lacks it.
SetItem(f, key, val) == [k \in (DOMAIN f) \cup {key} |-> IF k = key THEN val ELSE f[k]]

\* Python's ==: values of different types are never equal.
PyEq(a, b) == a.t = b.t /\ a.v = b.v

(***************************************************************************)
(* The outcome of a Python expression: a value, or the exception raised.   *)
(***************************************************************************)
Val(x) == [exc |-> "", val |-> x]

Raise(e) == [exc |-> e, val |-> JNull]

\* obj[key] instead of obj.get(key, default): a missing key raises.
GetItem(obj, key, default) ==
  IF obj.t # "dict" THEN Raise("TypeError")
  ELSE IF key \in DOMAIN obj.v THEN Val(obj.v[key])
  ELSE Raise("KeyError")

\* obj.get(key, default): only a dict has the method.
Get(obj, key, default) ==
  IF obj.t # "dict" THEN Raise("AttributeError")
  ELSE IF key \in DOMAIN obj.v THEN Val(obj.v[key])
  ELSE Val(default)

RECURSIVE SetToSeq(_)
SetToSeq(S) ==
  IF S = {} THEN <<>>
  ELSE LET x == CHOOSE y \in S : TRUE IN <<x>> \o SetToSeq(S \ {x})

\* iter(x) of a for loop: the items of a list, the characters of a str, the
\* keys of a dict; None and int are not iterable.
Iter(x) ==
  CASE x.t = "list" -> Val(x.v)
    [] x.t = "str"  -> Val([i \in 1..Len(x.v) |-> JStr(<<x.v[i]>>)])
    [] x.t = "dict" -> LET ks == SetToSeq(DOMAIN x.v)
                       IN Val([i \in 1..Len(ks) |-> JStr(<<ks[i]>>)])
    [] OTHER        -> Raise("TypeError")

\* str.split(sep): the segments between the separators, in order.
RECURSIVE SplitFrom(_, _, _, _, _)
SplitFrom(s, sep, i, cur, acc) ==
  IF i > Len(s) THEN Append(acc, cur)
  ELSE IF s[i] = sep THEN SplitFrom(s, sep, i + 1, <<>>, Append(acc, cur))
  ELSE SplitFrom(s, sep, i + 1, Append(cur, s[i]), acc)

Split(s, sep) == SplitFrom(s, sep, 1, <<>>, <<>>)

\* parts[-1]
Last(parts) == parts[Len(parts)]

\* parts[0]
First(parts) == parts[1]

\* The first segment instead of the last: repo_url.split('/')[0].
RepoNameFirst(repo_url) == First(Split(repo_url, "/"))

\* repo_url.split('/')[-1]
RepoName(repo_url) == Last(Split(repo_url, "/"))

\* {'name': repo_name, 'url': repo_url, 'description': description}
NewEntry(repo_url, description) ==
  JDict([name |-> JStr(RepoName(repo_url)),
         url |-> JStr(repo_url),
         description |-> JStr(description)])

(***************************************************************************)
(* update_mcps, lines 10-23: the work on the document in memory.  Each     *)
(* operator gives the exception raised ("" when none) and the document as  *)
(* mutated so far.                                                         *)
(***************************************************************************)
\* The loop without the comparison of line 13: every entry gets the
\* description.
RECURSIVE ScanFromAll(_, _, _, _, _)
ScanFromAll(items, i, repo_url, description, entry_exists) ==
  IF i > Len(items)
  THEN [exc |-> "", items |-> items, entry_exists |-> entry_exists]
  ELSE LET u == Get(items[i], "url", JNull)
       IN IF u.exc # ""
          THEN [exc |-> u.exc, items |-> items, entry_exists |-> entry_exists]
          ELSE ScanFromAll([items EXCEPT ![i] =
                              JDict(SetItem(@.v, "description", JStr(description)))],
                           i + 1, repo_url, description,
                           entry_exists \/ PyEq(u.val, JStr(repo_url)))

\* The loop with a break after line 15: only the first match is updated.
RECURSIVE ScanFromFirst(_, _, _, _, _)
ScanFromFirst(items, i, repo_url, description, entry_exists) ==
  IF i > Len(items)
  THEN [exc |-> "", items |-> items, entry_exists |-> entry_exists]
  ELSE LET u == Get(items[i], "url", JNull)
       IN IF u.exc # ""
          THEN [exc |-> u.exc, items |-> items, entry_exists |-> entry_exists]
          ELSE IF PyEq(u.val, JStr(repo_url))
          THEN [exc |-> "",
                items |-> [items EXCEPT ![i] =
                             JDict(SetItem(@.v, "description", JStr(description)))],
                entry_exists |-> TRUE]
          ELSE ScanFromFirst(items, i + 1, repo_url, description, entry_exists)

\* The loop without line 15: a match is not recorded.
RECURSIVE ScanFromForgetful(_, _, _, _, _)
ScanFromForgetful(items, i, repo_url, description, entry_exists) ==
  IF i > Len(items)
  THEN [exc |-> "", items |-> items, entry_exists |-> entry_exists]
  ELSE LET u == Get(items[i], "url", JNull)
       IN IF u.exc # ""
          THEN [exc |-> u.exc, items |-> items, entry_exists |-> entry_exists]
          ELSE IF PyEq(u.val, JStr(repo_url))
          THEN ScanFromForgetful([items EXCEPT ![i] =
                           JDict(SetItem(@.v, "description", JStr(description)))],
                        i + 1, repo_url, description, entry_exists)
          ELSE ScanFromForgetful(items, i + 1, repo_url, description, entry_exists)

\* Lines 13-15 from item i on: every item whose url equals repo_url gets the
\* description; an item without a get method raises.
RECURSIVE ScanFrom(_, _, _, _, _)
ScanFrom(items, i, repo_url, description, entry_exists) ==
  IF i > Len(items)
  THEN [exc |-> "", items |-> items, entry_exists |-> entry_exists]
  ELSE LET u == Get(items[i], "url", JNull)
       IN IF u.exc # ""
          THEN [exc |-> u.exc, items |-> items, entry_exists |-> entry_exists]
          ELSE IF PyEq(u.val, JStr(repo_url))
          THEN ScanFrom([items EXCEPT ![i] =
                           JDict(SetItem(@.v, "description", JStr(description)))],
                        i + 1, repo_url, description, TRUE)
          ELSE ScanFrom(items, i + 1, repo_url, description, entry_exists)

\* Lines 11-15: the loop over data.get('mcpRepos', []).  The items of a list
\* are mutated in place, so the document holds them afterwards.
ScanRepos(d, repo_url, description) ==
  LET g == Get(d, "mcpRepos", JList(<<>>))
  IN IF g.exc # "" THEN [exc |-> g.exc, val |-> d, entry_exists |-> FALSE]
     ELSE LET it == Iter(g.val)
          IN IF it.exc # "" THEN [exc |-> it.exc, val |-> d, entry_exists |-> FALSE]
             ELSE LET sc == ScanFrom(it.val, 1, repo_url, description, FALSE)
                      d1 == IF g.val.t = "list" /\ "mcpRepos" \in DOMAIN d.v
                            THEN JDict(SetItem(d.v, "mcpRepos", JList(sc.items)))
                            ELSE d
                  IN [exc |-> sc.exc, val |-> d1, entry_exists |-> sc.entry_exists]

\* insert(0, new_entry) instead of append(new_entry).
AddEntryFront(d, repo_url, description) ==
  LET d1 == IF "mcpRepos" \notin DOMAIN d.v
            THEN JDict(SetItem(d.v, "mcpRepos", JList(<<>>)))
            ELSE d
      repos == d1.v["mcpRepos"]
  IN IF repos.t # "list" THEN [exc |-> "AttributeError", val |-> d1]
     ELSE [exc |-> "",
           val |-> JDict(SetItem(d1.v, "mcpRepos",
                     JList(<<NewEntry(repo_url, description)>> \o repos.v)))]

\* Lines 19-23: the new entry is appended, to a list created when the key is
\* missing; only a list has an append method.
AddEntry(d, repo_url, description) ==
  LET d1 == IF "mcpRepos" \notin DOMAIN d.v
            THEN JDict(SetItem(d.v, "mcpRepos", JList(<<>>)))
            ELSE d
      repos == d1.v["mcpRepos"]
  IN IF repos.t # "list" THEN [exc |-> "AttributeError", val |-> d1]
     ELSE [exc |-> "",
           val |-> JDict(SetItem(d1.v, "mcpRepos",
                     JList(Append(repos.v, NewEntry(repo_url, description)))))]

\* Lines 10-23.
UpdateData(d, repo_url, description) ==
  LET sc == ScanRepos(d, repo_url, description)
  IN IF sc.exc # "" THEN [exc |-> sc.exc, val |-> sc.val]
     ELSE IF ~sc.entry_exists THEN AddEntry(sc.val, repo_url, description)
     ELSE [exc |-> "", val |-> sc.val]

(***************************************************************************)
(* The file: missing, or a text.  A text is the serialisation of a JSON    *)
(* value with some indentation ("json"), or no JSON document at all: the   *)
(* empty text a truncation leaves ("empty"), the beginning of a document   *)
(* ("partial"), anything else ("garbage").                                 *)
(***************************************************************************)
Text(kind) == [kind |-> kind, indent |-> 0, value |-> JNull]

Missing == Text("missing")

\* open(json_file, 'r'), line 7.
OpenRead(f, denied) ==
  IF f.kind = "missing" THEN "FileNotFoundError"
  ELSE IF denied THEN "PermissionError"
  ELSE ""

\* json.load(fin), line 8: the value of the text; the indentation is lost.
JsonLoad(f) ==
  IF f.kind = "json" THEN Val(f.value) ELSE Raise("JSONDecodeError")

\* open(json_file, 'w'), line 26: the file is truncated (created when missing).
OpenWrite(f) == Text("empty")

\* json.dump(data, fout, indent=2), line 27.
JsonDump(d) == [kind |-> "json", indent |-> 2, value |-> d]

\* A write that leaves a file alone that already has content.
WrittenFirst(f, text) == IF f.kind = "empty" THEN {text} ELSE {f}

\* Lines 26-27, the write of the text at the start of the file, which was
\* empty when it was opened.  When another invocation has written since, the
\* text replaces the beginning of that content: what results is the text, or
\* the text followed by the rest of the other one, which is no JSON document.
Written(f, text) == IF f.kind = "empty" THEN {text} ELSE {text, Text("garbage")}

(***************************************************************************)
(* The inputs: command lines, and the files the first invocation may find. *)
(***************************************************************************)
\* REPO_URL arguments of Spec and SpecConcurrent: a URL with a path, one
\* without any separator, one that ends in a separator.
RepoUrls == {<<"a", "/", "b">>, <<"b">>, <<"a", "/">>}

\* DESCRIPTION arguments.
Descs == {<<"x">>, <<"y">>}

\* REPO_URL arguments of SpecName: every string of at most MaxUrlLen characters.
UrlChars == {"a", "b", "/"}

AllUrls == UNION {[1..n -> UrlChars] : n \in 0..MaxUrlLen}

\* sys.argv of a command line with n positional arguments.
CommandLine(n, repo_url, description) ==
  [i \in 1..(n + 1) |->
     CASE i = 1 -> "mcps.py"
       [] i = 2 -> "mcp.json"
       [] i = 3 -> repo_url
       [] i = 4 -> description
       [] OTHER -> "extra"]

\* The command lines with a number of positional arguments in counts and a
\* URL in urls.
CommandLines(counts, urls) ==
  {CommandLine(n, u, d) : n \in counts, u \in urls, d \in Descs}

\* Items of the entry list of an initial file: two entries with different
\* URLs, an entry without name and description, an entry without url, and an
\* item that is no object.
InitEntries ==
  { JDict([name |-> JStr(<<"b">>), url |-> JStr(<<"a", "/", "b">>),
           description |-> JStr(<<"o">>), stars |-> JInt(5)]),
    JDict([name |-> JStr(<<"b">>), url |-> JStr(<<"b">>),
           description |-> JStr(<<"o">>)]),
    JDict([url |-> JStr(<<"a", "/", "b">>)]),
    JDict([name |-> JStr(<<"n">>)]),
    JStr(<<"a">>) }

InitLists == UNION {[1..n -> InitEntries] : n \in 0..MaxInitLen}

\* Values of mcpRepos that are no array.
WrongTyped ==
  { JNull, JInt(7), JStr(<<>>), JStr(<<"a">>), JDict(EmptyDict),
    JDict([a |-> JNull]) }

\* The other top-level fields of a document.
OtherFields == {EmptyDict, [version |-> JInt(1)]}

\* Documents whose top-level value is an object: without mcpRepos, with an
\* array, with a value of another type.
ListDocs == {JDict(SetItem(o, "mcpRepos", JList(l))) : o \in OtherFields, l \in InitLists}

NoListDocs == {JDict(o) : o \in OtherFields}

WrongTypedDocs == {JDict(SetItem(o, "mcpRepos", w)) : o \in OtherFields, w \in WrongTyped}

\* Top-level values that are no object.
NonObjects == {JNull, JInt(7), JStr(<<"a">>), JList(<<>>)}

\* The indentation of the file the first invocation finds: not the one
\* json.dump is given.
InitIndents == {4}

JsonFiles(values) == {[kind |-> "json", indent |-> n, value |-> d] : n \in InitIndents, d \in values}

InitFiles ==
  {Missing, Text("garbage"), Text("empty")}
    \cup JsonFiles(ListDocs \cup NoListDocs \cup WrongTypedDocs \cup NonObjects)

(***************************************************************************)
(* The program.  pc[p] is the position of invocation p: "idle" (not        *)
(* started), "read" (line 7), "update" (line 11), "open" (line 26), "dump" *)
(* (line 27), "exited", "crashed" (ended by an uncaught exception).        *)
(***************************************************************************)
\* The least length of sys.argv with which update_mcps is called, line 36.
MinArgv == 4

Usage == "Usage: python mcps.py JSON_FILE REPO_URL DESCRIPTION"

ErrorPrefix == "Error updating JSON file: "

InitProcs ==
  /\ pc = [p \in Procs |-> "idle"]
  /\ argv = [p \in Procs |-> <<>>]
  /\ data = [p \in Procs |-> JNull]
  /\ ret = [p \in Procs |-> "None"]
  /\ status = [p \in Procs |-> -1]
  /\ out = [p \in Procs |-> <<>>]
  /\ err = [p \in Procs |-> <<>>]
  /\ pre = [p \in Procs |-> file]
  /\ calls = 0
  /\ lastDesc = EmptyDict
  /\ writer = 0

Init ==
  /\ file \in InitFiles
  /\ InitProcs

\* Subclasses of Exception: the exceptions the steps of update_mcps raise,
\* and KeyError, which the subscript of a missing key would raise.
Exceptions ==
  { "FileNotFoundError", "PermissionError", "OSError", "JSONDecodeError",
    "AttributeError", "TypeError", "KeyError" }

\* Only the failures of the file system.
CatchesOSError(e) == e \in {"FileNotFoundError", "PermissionError", "OSError"}

\* except Exception, line 30.
Catches(e) == e \in Exceptions

\* Lines 30-32 and 45-46: the exception is caught, reported on stderr, the
\* routine returns False and the program exits with status 1.  An exception
\* the clause does not catch would leave update_mcps and end the program
\* with a traceback.
Except(p, e) ==
  IF Catches(e)
  THEN /\ err' = [err EXCEPT ![p] = Append(@, <<ErrorPrefix, e>>)]
       /\ ret' = [ret EXCEPT ![p] = "False"]
       /\ status' = [status EXCEPT ![p] = 1]
       /\ pc' = [pc EXCEPT ![p] = "exited"]
  ELSE /\ err' = [err EXCEPT ![p] = Append(@, <<"Traceback", e>>)]
       /\ status' = [status EXCEPT ![p] = 1]
       /\ pc' = [pc EXCEPT ![p] = "crashed"]
       /\ UNCHANGED ret

\* Too few arguments, allowing a command line without DESCRIPTION.
TooFewArgsOffByOne(a) == Len(a) < MinArgv - 1

\* len(sys.argv) < 4, line 36.
TooFewArgs(a) == Len(a) < MinArgv

\* Lines 34-44: a new process starts with a command line (of so many
\* positional arguments as counts allows, a URL of urls, and only while
\* fewer than limit processes were started); with too few arguments it
\* prints the usage and exits, otherwise it calls update_mcps.
Invoke(p, counts, urls, limit) ==
  /\ pc[p] \in {"idle", "exited", "crashed"}
  /\ calls < limit
  /\ \E a \in CommandLines(counts, urls) :
       /\ argv' = [argv EXCEPT ![p] = a]
       /\ IF TooFewArgs(a)
          THEN /\ out' = [out EXCEPT ![p] = <<Usage>>]
               /\ status' = [status EXCEPT ![p] = 1]
               /\ pc' = [pc EXCEPT ![p] = "exited"]
          ELSE /\ out' = [out EXCEPT ![p] = <<>>]
               /\ status' = [status EXCEPT ![p] = -1]
               /\ pc' = [pc EXCEPT ![p] = "read"]
  /\ calls' = calls + 1
  /\ pre' = [pre EXCEPT ![p] = file]
  /\ data' = [data EXCEPT ![p] = JNull]
  /\ ret' = [ret EXCEPT ![p] = "None"]
  /\ err' = [err EXCEPT ![p] = <<>>]
  /\ UNCHANGED <<file, lastDesc, writer>>

\* The file opened with mode 'w+' instead of 'r': it is truncated before it
\* is read.
ReadTruncating(p) ==
  /\ pc[p] = "read"
  /\ \E denied \in BOOLEAN :
       LET o == OpenRead(file, denied)
       IN IF o # "" THEN Except(p, o) /\ UNCHANGED file
          ELSE Except(p, "JSONDecodeError") /\ file' = Text("empty")
  /\ UNCHANGED <<data, argv, out, pre, calls, lastDesc, writer>>

\* Lines 7-8: the file is opened, read whole and parsed.
Read(p) ==
  /\ pc[p] = "read"
  /\ \E denied \in BOOLEAN :
       LET o == OpenRead(file, denied)
           l == JsonLoad(file)
       IN IF o # "" THEN Except(p, o) /\ UNCHANGED data
          ELSE IF l.exc # "" THEN Except(p, l.exc) /\ UNCHANGED data
          ELSE /\ data' = [data EXCEPT ![p] = l.val]
               /\ pc' = [pc EXCEPT ![p] = "update"]
               /\ UNCHANGED <<ret, status, err>>
  /\ UNCHANGED <<file, argv, out, pre, calls, lastDesc, writer>>

\* Lines 10-23: the document in memory is scanned and, when no entry has the
\* URL, extended.
Update(p) ==
  /\ pc[p] = "update"
  /\ LET r == UpdateData(data[p], argv[p][3], argv[p][4])
     IN /\ data' = [data EXCEPT ![p] = r.val]
        /\ IF r.exc # "" THEN Except(p, r.exc)
           ELSE /\ pc' = [pc EXCEPT ![p] = "open"]
                /\ UNCHANGED <<ret, status, err>>
  /\ UNCHANGED <<file, argv, out, pre, calls, lastDesc, writer>>

\* Line 26: the file is reopened for writing, which truncates it.
Open(p) ==
  /\ pc[p] = "open"
  /\ \E denied \in BOOLEAN :
       IF denied THEN Except(p, "PermissionError") /\ UNCHANGED file
       ELSE /\ file' = OpenWrite(file)
            /\ pc' = [pc EXCEPT ![p] = "dump"]
            /\ UNCHANGED <<ret, status, err>>
  /\ UNCHANGED <<argv, data, out, pre, calls, lastDesc, writer>>

\* Lines 27-29 and 44-46: the document is written; update_mcps returns True
\* and the program ends with status 0.  A failed write leaves the file empty
\* or with the beginning of the document.
Dump(p) ==
  /\ pc[p] = "dump"
  /\ \E failed \in BOOLEAN :
       IF failed
       THEN /\ file' \in {Text("empty"), Text("partial")}
            /\ Except(p, "OSError")
            /\ UNCHANGED <<lastDesc, writer>>
       ELSE /\ file' \in Written(file, JsonDump(data[p]))
            /\ writer' = p
            /\ ret' = [ret EXCEPT ![p] = "True"]
            /\ status' = [status EXCEPT ![p] = 0]
            /\ pc' = [pc EXCEPT ![p] = "exited"]
            /\ lastDesc' = SetItem(lastDesc, argv[p][3], argv[p][4])
            /\ UNCHANGED err
  /\ UNCHANGED <<argv, data, out, pre, calls>>

\* One invocation at a time.
Next ==
  \/ Invoke(1, 0..MaxArgs, RepoUrls, MaxCalls)
  \/ Read(1)
  \/ Update(1)
  \/ Open(1)
  \/ Dump(1)

Spec == Init /\ [][Next]_vars

(***************************************************************************)
(* What the properties speak of.                                           *)
(***************************************************************************)
\* Invocation p called update_mcps.
Called(p) == Len(argv[p]) >= MinArgv

RepoUrlOf(p) == argv[p][3]

DescriptionOf(p) == argv[p][4]

\* Invocation p has ended, and update_mcps returned True.
Succeeded(p) == pc[p] = "exited" /\ Called(p) /\ ret[p] = "True"

\* Invocation p has ended, and update_mcps returned False.
Failed(p) == pc[p] = "exited" /\ Called(p) /\ ret[p] = "False"

\* The exception the error message of invocation p reports.
Reported(p) == err[p][1][2]

\* The text holds a JSON object.
IsObject(f) == f.kind = "json" /\ f.value.t = "dict"

HasRepos(f) == IsObject(f) /\ "mcpRepos" \in DOMAIN f.value.v

\* The entry list of a file; empty when the document lacks it.
Entries(f) ==
  IF HasRepos(f) /\ f.value.v["mcpRepos"].t = "list"
  THEN f.value.v["mcpRepos"].v
  ELSE <<>>

\* A well-formed document: an object whose entry list, when it has one, is
\* an array of objects.
WellFormed(f) ==
  /\ IsObject(f)
  /\ HasRepos(f) => f.value.v["mcpRepos"].t = "list"
  /\ \A i \in 1..Len(Entries(f)) : Entries(f)[i].t = "dict"

\* Entry e has the URL u.
HasUrl(e, u) ==
  /\ e.t = "dict"
  /\ "url" \in DOMAIN e.v
  /\ e.v["url"].t = "str"
  /\ e.v["url"].v = u

\* Entry e has the description d.
HasDescription(e, d) ==
  /\ e.t = "dict"
  /\ "description" \in DOMAIN e.v
  /\ e.v["description"].t = "str"
  /\ e.v["description"].v = d

\* The positions of the entries of f with URL u.
Matching(f, u) == {i \in 1..Len(Entries(f)) : HasUrl(Entries(f)[i], u)}

\* Entries a and b differ at most in the description.
SameButDescription(a, b) ==
  /\ a.t = "dict" /\ b.t = "dict"
  /\ (DOMAIN a.v) \cup {"description"} = (DOMAIN b.v) \cup {"description"}
  /\ \A k \in (DOMAIN a.v) \ {"description"} : a.v[k] = b.v[k]

\* Documents f and g differ at most in the entry list.
SameOtherFields(f, g) ==
  /\ IsObject(f) /\ IsObject(g)
  /\ (DOMAIN f.value.v) \cup {"mcpRepos"} = (DOMAIN g.value.v) \cup {"mcpRepos"}
  /\ \A k \in (DOMAIN f.value.v) \ {"mcpRepos"} : f.value.v[k] = g.value.v[k]

(***************************************************************************)
(* C1.  When the file is a well-formed document with at least one entry    *)
(* whose url is the given URL, a successful update_mcps changes nothing    *)
(* but the description of the matching entries: the list keeps its length  *)
(* and order, a matching entry keeps every field but description, every    *)
(* other entry and every other top-level field is as it was.               *)
(***************************************************************************)
C1_OnlyDescriptionChanges ==
  \A p \in Procs :
    (Succeeded(p) /\ WellFormed(pre[p]) /\ Matching(pre[p], RepoUrlOf(p)) # {})
      => /\ HasRepos(file)
         /\ file.value.v["mcpRepos"].t = "list"
         /\ SameOtherFields(pre[p], file)
         /\ Len(Entries(file)) = Len(Entries(pre[p]))
         /\ \A i \in 1..Len(Entries(pre[p])) :
              IF i \in Matching(pre[p], RepoUrlOf(p))
              THEN SameButDescription(Entries(pre[p])[i], Entries(file)[i])
              ELSE Entries(file)[i] = Entries(pre[p])[i]

\* An update that found the URL, in a list with another entry and another
\* top-level field.
C1_Witness ==
  /\ Succeeded(1)
  /\ WellFormed(pre[1])
  /\ Matching(pre[1], RepoUrlOf(1)) # {}
  /\ Len(Entries(pre[1])) > Cardinality(Matching(pre[1], RepoUrlOf(1)))
  /\ "version" \in DOMAIN pre[1].value.v
  /\ file # pre[1]

(***************************************************************************)
(* C2.  When two or more entries have the given URL, after a successful    *)
(* update_mcps every one of them has the given description, and no entry   *)
(* was appended.                                                           *)
(***************************************************************************)
C2_EveryMatchUpdated ==
  \A p \in Procs :
    (Succeeded(p) /\ Cardinality(Matching(pre[p], RepoUrlOf(p))) >= 2)
      => /\ Len(Entries(file)) = Len(Entries(pre[p]))
         /\ \A i \in Matching(pre[p], RepoUrlOf(p)) :
              /\ HasUrl(Entries(file)[i], RepoUrlOf(p))
              /\ HasDescription(Entries(file)[i], DescriptionOf(p))

\* Two entries with the URL, the second of which had another description or
\* none.
C2_Witness ==
  /\ Succeeded(1)
  /\ Matching(pre[1], RepoUrlOf(1)) = {1, 2}
  /\ ~HasDescription(Entries(pre[1])[2], DescriptionOf(1))
  /\ HasDescription(Entries(file)[2], DescriptionOf(1))

(***************************************************************************)
(* C3.  When the file is a well-formed document none of whose entries has  *)
(* the given URL (its list may be empty, or missing), after a successful   *)
(* update_mcps the entry list is the previous one followed by exactly one  *)
(* new entry with the given url and description; a document that lacked    *)
(* the list has exactly one entry.                                         *)
(***************************************************************************)
C3_AppendsOneEntry ==
  \A p \in Procs :
    (Succeeded(p) /\ WellFormed(pre[p]) /\ Matching(pre[p], RepoUrlOf(p)) = {})
      => /\ HasRepos(file)
         /\ file.value.v["mcpRepos"].t = "list"
         /\ Len(Entries(file)) = Len(Entries(pre[p])) + 1
         /\ SubSeq(Entries(file), 1, Len(Entries(pre[p]))) = Entries(pre[p])
         /\ HasUrl(Entries(file)[Len(Entries(file))], RepoUrlOf(p))
         /\ HasDescription(Entries(file)[Len(Entries(file))], DescriptionOf(p))
         /\ ~HasRepos(pre[p]) => Len(Entries(file)) = 1

\* An entry appended to a document that had no entry list.
C3_Witness ==
  /\ Succeeded(1)
  /\ IsObject(pre[1])
  /\ ~HasRepos(pre[1])
  /\ Len(Entries(file)) = 1

(***************************************************************************)
(* SpecName: one invocation, with any URL of at most MaxUrlLen characters, *)
(* on a document with an empty entry list or none.                         *)
(***************************************************************************)
InitName ==
  /\ file \in JsonFiles({JDict(EmptyDict), JDict([mcpRepos |-> JList(<<>>)])})
  /\ InitProcs

NextName ==
  \/ Invoke(1, 0..MaxArgs, AllUrls, 1)
  \/ Read(1)
  \/ Update(1)
  \/ Open(1)
  \/ Dump(1)

SpecName == InitName /\ [][NextName]_vars

\* The positions of the separator in u.
Separators(u) == {i \in 1..Len(u) : u[i] = "/"}

\* The substring of u after its last '/', u itself when it has none.
AfterLastSeparator(u) ==
  IF Separators(u) = {} THEN u
  ELSE LET m == CHOOSE i \in Separators(u) : \A j \in Separators(u) : j <= i
       IN [k \in 1..(Len(u) - m) |-> u[m + k]]

(***************************************************************************)
(* C4.  The entry update_mcps creates has as name the substring of the     *)
(* given URL after its last '/', the whole URL when it has no '/', the     *)
(* empty string when it ends in '/'; its url and description are the given *)
(* strings.                                                                *)
(***************************************************************************)
C4_NameIsLastSegment ==
  \A p \in Procs :
    (Succeeded(p) /\ Matching(pre[p], RepoUrlOf(p)) = {})
      => LET e == Entries(file)[Len(Entries(file))]
         IN /\ Len(Entries(file)) = Len(Entries(pre[p])) + 1
            /\ e.t = "dict"
            /\ DOMAIN e.v = {"name", "url", "description"}
            /\ e.v["name"] = JStr(AfterLastSeparator(RepoUrlOf(p)))
            /\ e.v["url"] = JStr(RepoUrlOf(p))
            /\ e.v["description"] = JStr(DescriptionOf(p))
            /\ (Separators(RepoUrlOf(p)) = {} => e.v["name"].v = RepoUrlOf(p))
            /\ (Len(RepoUrlOf(p)) > 0 /\ RepoUrlOf(p)[Len(RepoUrlOf(p))] = "/"
                  => e.v["name"].v = <<>>)

\* An entry created for a URL with two separators and a last segment that
\* is neither empty nor the first one.
C4_Witness ==
  /\ Succeeded(1)
  /\ RepoUrlOf(1) = <<"a", "/", "/", "b">>
  /\ Len(Entries(file)) = 1
  /\ Entries(file)[1].v["name"] = JStr(<<"b">>)

(***************************************************************************)
(* C5.  Every failure inside update_mcps is caught there: no exception     *)
(* leaves the routine; a failed call reports "Error updating JSON file: "  *)
(* and the details on stderr, returns False, and the program exits with    *)
(* status 1.  The call returns True, and the program exits with status 0,  *)
(* only when no step raised: nothing was reported, the file was read as an *)
(* object and holds the document the call built.                           *)
(***************************************************************************)
C5_FailuresCaught ==
  \A p \in Procs :
    /\ pc[p] # "crashed"
    /\ (pc[p] = "exited" /\ Called(p)) =>
         \/ /\ ret[p] = "False"
            /\ status[p] = 1
            /\ Len(err[p]) = 1
            /\ err[p][1][1] = ErrorPrefix
            /\ err[p][1][2] \in Exceptions
         \/ /\ ret[p] = "True"
            /\ status[p] = 0
            /\ err[p] = <<>>
            /\ IsObject(pre[p])
            /\ file = JsonDump(data[p])
    /\ (pc[p] = "exited" /\ Called(p) /\ ~WellFormed(pre[p])) => ret[p] = "False"
    /\ (pc[p] \in {"read", "update", "open", "dump"}) =>
         (ret[p] = "None" /\ status[p] = -1 /\ err[p] = <<>>)

\* A failure while scanning the entry list, reported and turned into
\* status 1.
C5_Witness ==
  /\ Failed(1)
  /\ status[1] = 1
  /\ err[1] = <<<<ErrorPrefix, "AttributeError">>>>
  /\ WellFormed(pre[1]) = FALSE
  /\ IsObject(pre[1])

(***************************************************************************)
(* C6.  With fewer than three positional arguments the program prints the  *)
(* usage message, exits with status 1 and never calls update_mcps: the     *)
(* file is not opened, read or modified.                                   *)
(***************************************************************************)
C6_UsageOnTooFewArguments ==
  \A p \in Procs :
    (pc[p] # "idle" /\ Len(argv[p]) - 1 < 3)
      => /\ pc[p] = "exited"
         /\ out[p] = <<Usage>>
         /\ status[p] = 1
         /\ ret[p] = "None"
         /\ err[p] = <<>>
         /\ data[p] = JNull
         /\ file = pre[p]

\* A command line with the file and the URL but no description.
C6_Witness ==
  /\ pc[1] = "exited"
  /\ Len(argv[1]) = 3
  /\ out[1] = <<Usage>>
  /\ status[1] = 1
  /\ file.kind = "json"

\* The document has an mcpRepos field that is no array.
HasWrongTypedRepos(f) == HasRepos(f) /\ f.value.v["mcpRepos"].t # "list"

\* The file system refused an operation of invocation p.
IoFailed(p) == Failed(p) /\ Reported(p) \in {"PermissionError", "OSError"}

(***************************************************************************)
(* C7.  As claimed: a document whose mcpRepos is missing or is no array    *)
(* (null, a string, a number, an object) is treated as one without entry   *)
(* list: unless the file system fails, the update succeeds and the file    *)
(* then holds the new entry as its only entry.                             *)
(***************************************************************************)
C7_WrongTypeTreatedAsAbsent ==
  \A p \in Procs :
    ( /\ pc[p] = "exited" /\ Called(p)
      /\ IsObject(pre[p])
      /\ ~HasRepos(pre[p]) \/ HasWrongTypedRepos(pre[p])
      /\ ~IoFailed(p) )
      => /\ ret[p] = "True"
         /\ Len(Entries(file)) = 1
         /\ HasUrl(Entries(file)[1], RepoUrlOf(p))

(***************************************************************************)
(* C7, amended.  Only a missing mcpRepos is treated as an empty list:      *)
(* unless the file system fails, the update succeeds and the new entry is  *)
(* the only entry.  With an mcpRepos that is no array the update fails: an *)
(* AttributeError or TypeError is reported, update_mcps returns False, the *)
(* program exits with status 1 and the file is left as it was.             *)
(***************************************************************************)
C7_OnlyMissingTreatedAsAbsent ==
  \A p \in Procs :
    (pc[p] = "exited" /\ Called(p) /\ IsObject(pre[p]) /\ ~IoFailed(p))
      => /\ ~HasRepos(pre[p])
              => /\ ret[p] = "True"
                 /\ Len(Entries(file)) = 1
                 /\ HasUrl(Entries(file)[1], RepoUrlOf(p))
                 /\ HasDescription(Entries(file)[1], DescriptionOf(p))
         /\ HasWrongTypedRepos(pre[p])
              => /\ ret[p] = "False"
                 /\ status[p] = 1
                 /\ Reported(p) \in {"AttributeError", "TypeError"}
                 /\ file = pre[p]

\* An update of a document whose mcpRepos is the empty string: the loop
\* finds nothing and the append fails.
C7_Witness ==
  /\ Failed(1)
  /\ HasWrongTypedRepos(pre[1])
  /\ pre[1].value.v["mcpRepos"] = JStr(<<>>)
  /\ Reported(1) = "AttributeError"
  /\ file = pre[1]

(***************************************************************************)
(* C9.  When update_mcps fails before it reopens the file for writing (the *)
(* file is missing, unreadable, no JSON, no object, or the scan of the     *)
(* entry list raises, even after entries were changed in memory), the file *)
(* is exactly what it was before the call.  The same holds when the        *)
(* reopening itself is refused.                                            *)
(***************************************************************************)
C9_FailureBeforeWriteKeepsFile ==
  \A p \in Procs :
    (Failed(p) /\ Reported(p) # "OSError") => file = pre[p]

\* The scan failed on the second item after it had changed the first one in
\* memory.
C9_Witness ==
  /\ Failed(1)
  /\ Reported(1) = "AttributeError"
  /\ IsObject(pre[1])
  /\ data[1] # pre[1].value
  /\ Len(Entries(pre[1])) = 2
  /\ HasDescription(data[1].v["mcpRepos"].v[1], DescriptionOf(1))
  /\ file = pre[1]

\* No two entries of f have the same URL.
DistinctUrls(f) ==
  \A i, j \in 1..Len(Entries(f)) :
    (i # j /\ Entries(f)[i].t = "dict" /\ "url" \in DOMAIN Entries(f)[i].v)
      => ~HasUrl(Entries(f)[j], Entries(f)[i].v["url"].v)

(***************************************************************************)
(* C10.  Over successful invocations one after the other, no entry is      *)
(* removed and no duplicate URL is introduced: the number of entries with  *)
(* a URL goes from 0 to 1 by an invocation with that URL and never changes *)
(* otherwise, so pairwise distinct URLs stay pairwise distinct; and every  *)
(* URL given to a successful invocation has an entry, each with the        *)
(* description of the latest such invocation.                              *)
(***************************************************************************)
C10_NoRemovalNoDuplicate ==
  /\ \A p \in Procs :
       Succeeded(p) =>
         /\ Len(Entries(file)) >= Len(Entries(pre[p]))
         /\ \A i \in 1..Len(Entries(pre[p])) :
              SameButDescription(Entries(pre[p])[i], Entries(file)[i])
         /\ \A u \in RepoUrls :
              Cardinality(Matching(file, u)) =
                IF u = RepoUrlOf(p) /\ Matching(pre[p], u) = {}
                THEN 1
                ELSE Cardinality(Matching(pre[p], u))
         /\ DistinctUrls(pre[p]) => DistinctUrls(file)
  /\ (pc[1] \in {"idle", "exited"} /\ WellFormed(file)) =>
       \A u \in DOMAIN lastDesc :
         /\ Matching(file, u) # {}
         /\ \A i \in Matching(file, u) : HasDescription(Entries(file)[i], lastDesc[u])

\* Two successful invocations with the same URL and different descriptions
\* on a document that lacked the URL: one entry, with the second
\* description.
C10_Witness ==
  /\ Succeeded(1)
  /\ calls = 2
  /\ Cardinality(Matching(pre[1], RepoUrlOf(1))) = 1
  /\ ~HasDescription(Entries(pre[1])[Len(Entries(pre[1]))], DescriptionOf(1))
  /\ Len(Entries(file)) = 1
  /\ HasDescription(Entries(file)[1], DescriptionOf(1))
  /\ lastDesc = SetItem(EmptyDict, RepoUrlOf(1), DescriptionOf(1))

(***************************************************************************)
(* SpecConcurrent: the invocations of Procs run at the same time on the    *)
(* same file, each with a complete command line; as many processes are     *)
(* started as Procs has members, and their steps interleave at the         *)
(* operations on the file.                                                 *)
(***************************************************************************)
NextConcurrent ==
  \E p \in Procs :
    \/ Invoke(p, {MinArgv - 1}, RepoUrls, Cardinality(Procs))
    \/ Read(p)
    \/ Update(p)
    \/ Open(p)
    \/ Dump(p)

SpecConcurrent == Init /\ [][NextConcurrent]_vars

(***************************************************************************)
(* C8.  Nothing locks the file between invocations: an invocation reads    *)
(* the document whatever the others are doing, changes its own copy, and   *)
(* its write replaces the whole file, so the last writer wins: the copy of *)
(* a successful invocation holds its own change, and a file that is a JSON *)
(* document after the last write is the copy of the last writer, whatever  *)
(* the others wrote.  (A run where both read before either writes and one  *)
(* change is lost although both succeeded is C8_Witness.)                  *)
(***************************************************************************)
C8_LastWriterWins ==
  /\ \A p \in Procs :
       /\ Succeeded(p) =>
            /\ Matching([kind |-> "json", indent |-> 2, value |-> data[p]],
                        RepoUrlOf(p)) # {}
            /\ \A i \in Matching([kind |-> "json", indent |-> 2, value |-> data[p]],
                                 RepoUrlOf(p)) :
                 HasDescription(data[p].v["mcpRepos"].v[i], DescriptionOf(p))
       /\ pc[p] = "read" => ENABLED Read(p)
  /\ (writer # 0 /\ file.kind = "json")
       => /\ Succeeded(writer) => file.value = data[writer]
          /\ file.indent = 2

\* Both invocations read the same document, then each wrote; both returned
\* True, and the file has the entry of the second writer only.
C8_Witness ==
  /\ Succeeded(1) /\ Succeeded(2)
  /\ pre[1] = pre[2]
  /\ WellFormed(pre[1])
  /\ RepoUrlOf(1) # RepoUrlOf(2)
  /\ Matching(pre[1], RepoUrlOf(1)) = {}
  /\ Matching(pre[1], RepoUrlOf(2)) = {}
  /\ writer = 2
  /\ file.kind = "json"
  /\ Matching(file, RepoUrlOf(2)) # {}
  /\ Matching(file, RepoUrlOf(1)) = {}
  /\ Len(Entries(file)) = Len(Entries(pre[1])) + 1

====
